---- MODULE Spec2Model ----
(***************************************************************************)
(* Task execution engine of backend/server.js (first variant, lines 1-958):*)
(* the two cron timers, the run-task endpoint, runTask, the demo content   *)
(* source scrapeInstagramPosts and the JSON task / account stores.         *)
(*                                                                         *)
(* Node runs one handler at a time; a handler gives up control only at an  *)
(* await of a timer or of I/O.  Each action below is the code between two  *)
(* such suspension points.                                                 *)
(***************************************************************************)
EXTENDS Integers, Sequences, FiniteSets, TLC

VARIABLES
    tasks,        \* contents of TASKS_FILE: the array of task records
    accounts,     \* contents of ACCOUNTS_FILE: the usernames holding a session
    feed,         \* per source account, the content the platform shows now
    now,          \* Date.now()
    proc,         \* per handler slot, the locals of the invocation in it
    lastFetched,  \* history: per task id and source, last item of the latest non-empty fetch
    lastDone,     \* history: per task id, the fetches of the latest run that wrote the task file
    answer,       \* the response of the latest POST /api/tasks/add or toggle
    logs,         \* contents of LOGS_FILE
    appended,     \* history: the number of calls of addLog
    adding        \* per request slot, the locals of a POST /api/accounts/add

vars == <<tasks, accounts, feed, now, proc, lastFetched, lastDone, answer,
          logs, appended, adding>>

----------------------------------------------------------------------------
(* Bounds of the model *)

MaxClock == 2      \* distinct values of the clock
MaxTasks == 2      \* tasks the add-task endpoint is asked to create
MaxAppends == 1003 \* calls of addLog
MaxAccounts == 3   \* entries of the account store

(* The slots of the handlers: the timers and the run-task endpoint, each   *)
(* slot with at most one invocation in flight.                             *)
Timers == {"tick5", "tick2"}
(* The handlers of the 5-minute timer that may be in progress at once: the *)
(* one of a tick and the one of the tick after it                          *)
FiveMinute == {"tick5", "tick5next"}
Procs == Timers \cup FiveMinute \cup {"manual"}

Sources == {"natgeo", "animalplanet"}
(* A task id is the value of the clock at its creation *)
TaskIds == 1..MaxClock
(* The task ids a request names: those of the tasks and one of no task *)
RequestIds == TaskIds \cup {9}

(* null / undefined of the source, as values of the field's own type *)
NoPost == 0                 \* lastPostId = null
NoRun == 0                  \* lastRun: null
NoCount == 0 - 1            \* lastProcessedCount: undefined

----------------------------------------------------------------------------
(* Task names and String.prototype.toLowerCase / includes *)

Upper == <<"A","B","C","D","E","F","G","H","I","J","K","L","M",
           "N","O","P","Q","R","S","T","U","V","W","X","Y","Z">>
Lower == <<"a","b","c","d","e","f","g","h","i","j","k","l","m",
           "n","o","p","q","r","s","t","u","v","w","x","y","z">>

toLowerCase(str) ==
    [i \in 1..Len(str) |->
        IF \E k \in 1..Len(Upper) : Upper[k] = str[i]
        THEN Lower[CHOOSE k \in 1..Len(Upper) : Upper[k] = str[i]]
        ELSE str[i]]

includes(str, sub) ==
    \E i \in 0..(Len(str) - Len(sub)) : SubSeq(str, i + 1, i + Len(sub)) = sub

StrPriority == <<"p","r","i","o","r","i","t","y">>
StrUrgent == <<"u","r","g","e","n","t">>

NameDaily == <<"D","a","i","l","y">>
NameUrgent == <<"U","R","G","E","N","T">>
NamePriority == <<"P","r","i","o","r","i","t","y">>

----------------------------------------------------------------------------
(* Content types *)

PostsOnly == [posts |-> TRUE, reels |-> FALSE, stories |-> FALSE]
PostsReels == [posts |-> TRUE, reels |-> TRUE, stories |-> FALSE]

(* Mutant: the type test lets every type pass *)
AnyContentType(type, contentTypes) == TRUE

(* The content-type test, written out twice in the source: typeAllowed in  *)
(* scrapeInstagramPosts and shouldPost in runTask.                         *)
ContentTypeEnabled(type, contentTypes) ==
    \/ type = "post" /\ contentTypes.posts
    \/ type = "reel" /\ contentTypes.reels
    \/ type = "story" /\ contentTypes.stories

typeAllowed(item, contentTypes) == ContentTypeEnabled(item.type, contentTypes)

shouldPost(contentItem, task) == ContentTypeEnabled(contentItem.type, task.contentTypes)

(* sourceContentMap: the items each source account has, by type; the id of *)
(* an item is its place in the list.                                       *)
sourceContentMap ==
    [s \in Sources |-> IF s = "natgeo" THEN <<"post", "reel">> ELSE <<"post">>]

(* Mutant: the source returns all it shows *)
scrapeUnfiltered(demoContent, lastPostId, contentTypes) == demoContent

(* scrapeInstagramPosts: the filter over the content the source shows *)
scrapeInstagramPosts(demoContent, lastPostId, contentTypes) ==
    SelectSeq(demoContent,
        LAMBDA item :
            LET isNew == lastPostId = NoPost \/ item.id # lastPostId
            IN typeAllowed(item, contentTypes) /\ isNew)

----------------------------------------------------------------------------
(* Records *)

(* Mutant: a new task waits to be enabled *)
newTaskDisabled(id, name, sourceAccounts, destinationAccounts, contentTypes) ==
    [id |-> id, name |-> name, sourceUsername |-> sourceAccounts,
     destinationAccounts |-> destinationAccounts, contentTypes |-> contentTypes,
     enabled |-> FALSE, lastRun |-> NoRun, lastPostIds |-> <<>>,
     lastProcessedCount |-> NoCount]

NewTask(id, name, sourceAccounts, destinationAccounts, contentTypes) ==
    [id |-> id, name |-> name, sourceUsername |-> sourceAccounts,
     destinationAccounts |-> destinationAccounts, contentTypes |-> contentTypes,
     enabled |-> TRUE, lastRun |-> NoRun, lastPostIds |-> <<>>,
     lastProcessedCount |-> NoCount]

(* An entry addLog appends: its type, which message it is, and the account, *)
(* content type or count the message names.                                *)
Log(type, message, about) ==
    [type |-> type, message |-> message, about |-> about, n |-> 0]

LogN(type, message, n) ==
    [type |-> type, message |-> message, about |-> "", n |-> n]

(* Keep only last 1000 logs *)
LogCap == 1000

(* Mutant: the entries past the cap are cut off at the end *)
spliceNewest(list) ==
    IF Len(list) > LogCap THEN SubSeq(list, 1, LogCap) ELSE list

(* if (logs.length > 1000) logs.splice(0, logs.length - 1000) *)
splice(list) ==
    IF Len(list) > LogCap
    THEN SubSeq(list, (Len(list) - LogCap) + 1, Len(list))
    ELSE list

(* addLog on the log file: push the entry, cut, write.  n tells which call *)
(* of addLog made the entry.                                               *)
addLog(message, type) ==
    /\ appended < MaxAppends
    /\ logs' = splice(Append(logs, [message |-> message, type |-> type,
                                    n |-> appended + 1]))
    /\ appended' = appended + 1
    /\ UNCHANGED <<tasks, accounts, feed, now, proc, lastFetched, lastDone, answer, adding>>

(* No request to add a task has been answered *)
NoAnswer == [status |-> 0, task |-> <<>>]   \* task: the tasks in the body, none or one

IdleProc ==
    [pc |-> "idle", queue |-> <<>>, qi |-> 0,
     destinationAccounts |-> <<>>, si |-> 0, allNewContent |-> <<>>,
     totalNewContent |-> 0, ii |-> 0, di |-> 0, trace |-> <<>>, log |-> <<>>,
     response |-> 0]

CurrentTask(pr) == pr.queue[pr.qi]

Range(seq) == {seq[i] : i \in 1..Len(seq)}

Last(seq) == seq[Len(seq)]

(* lastPostIds[sourceAccount], undefined read as null *)
lastPostIdOf(task, sourceAccount) ==
    IF sourceAccount \in DOMAIN task.lastPostIds
    THEN task.lastPostIds[sourceAccount]
    ELSE NoPost

FetchEvents(trace) == SelectSeq(trace, LAMBDA e : e.ev = "fetch")

----------------------------------------------------------------------------
(* runTask *)

InterTaskDelay(p) == IF p \in FiveMinute THEN 30000 ELSE 15000

(* Mutant: a run that ends on an error keeps its handler's slot *)
AfterRunHeldOnError(p, pr) ==
    IF Last(pr.log).type = "error"
    THEN [pr EXCEPT !.pc = "held"]
    ELSE IF p = "manual"
    THEN [pr EXCEPT !.pc = "idle", !.response = 200]
    ELSE [pr EXCEPT !.pc = "between",
                    !.trace = Append(@, [ev |-> "delay", ms |-> IF p \in FiveMinute THEN 30000 ELSE 15000])]

(* runTask has returned to its caller.  The run-task endpoint answers at   *)
(* once; a timer's loop first awaits its delay between tasks.              *)
(* Mutant: the delay between the tasks of a tick taken only after a run *)
(* that logged no error at its end                                     *)
AfterRunNoDelayOnError(p, pr) ==
    IF p = "manual"
    THEN [pr EXCEPT !.pc = "idle", !.response = 200]
    ELSE IF Last(pr.log).type = "error"
    THEN [pr EXCEPT !.pc = "between"]
    ELSE [pr EXCEPT !.pc = "between",
                    !.trace = Append(@, [ev |-> "delay", ms |-> InterTaskDelay(p)])]

AfterRun(p, pr) ==
    IF p = "manual"
    THEN [pr EXCEPT !.pc = "idle", !.response = 200]
    ELSE [pr EXCEPT !.pc = "between",
                    !.trace = Append(@, [ev |-> "delay", ms |-> InterTaskDelay(p)])]

(* runTask has rejected: the run-task endpoint answers 500 from its catch;  *)
(* the 5-minute timer logs the failure and goes to the next task without   *)
(* the delay; the 2-minute timer has no catch and its handler is over.     *)
Rejected(p, pr) ==
    IF p = "manual"
    THEN [pr EXCEPT !.pc = "idle", !.response = 500]
    ELSE IF p \in FiveMinute
    THEN [pr EXCEPT !.pc = "between", !.log = Append(@, Log("error", "taskFailed", ""))]
    ELSE [IdleProc EXCEPT !.log = Append(pr.log, Log("error", "unhandledRejection", ""))]

(* Mutant: a post that throws is not caught in the destination loop nor by *)
(* runTask                                                                 *)
postErrorPropagates(p, failed, onward) == Rejected(p, failed)

(* catch (error) of the destination loop: the failure is logged (failed is *)
(* the run with that entry) and the run goes onward.                       *)
afterPostError(p, failed, onward) == onward

(* Mutant: the run goes on without a destination account *)
neverNoDestinations(destinationAccounts) == FALSE

(* destinationAccounts.length === 0 *)
noValidDestinations(destinationAccounts) == Len(destinationAccounts) = 0

(* Entry of runTask up to the first await: the destination accounts are    *)
(* resolved against the account store; with none the run returns.          *)
BeginRun(p, pr, before) ==
    LET task == CurrentTask(pr)
        sourceAccounts == task.sourceUsername
        destinationAccounts ==
            SelectSeq(accounts, LAMBDA acc : acc \in task.destinationAccounts)
        started == [pr EXCEPT
                      !.destinationAccounts = destinationAccounts,
                      !.si = 1, !.ii = 0, !.di = 0,
                      !.allNewContent = <<>>, !.totalNewContent = 0,
                      !.trace = <<>>,
                      !.log = before \o
                              <<Log("info", "running", ""),
                                LogN("info", "monitoring", Len(sourceAccounts))>>]
    IN IF noValidDestinations(destinationAccounts)
       THEN AfterRun(p, [started EXCEPT
                        !.log = Append(@, Log("error", "noDestinations", ""))])
       ELSE IF Len(sourceAccounts) = 0
       THEN AfterRun(p, [started EXCEPT
                        !.log = Append(@, LogN("info", "noNewContent", 0))])
       ELSE [started EXCEPT !.pc = "fetch"]

(* Mutant: a run with nothing new goes on to the end of runTask *)
emptyBatchGoesOn(p, pr) == [pr EXCEPT !.pc = "persist"]

(* if (totalNewContent === 0) { addLog(...); return; }: pr is the run with *)
(* the entry logged                                                        *)
emptyBatch(p, pr) == AfterRun(p, pr)

(* Mutant: a scrape that fails ends the source loop *)
moreSourcesUnlessFailed(pr, scrapeOk) ==
    scrapeOk /\ pr.si < Len(CurrentTask(pr).sourceUsername)

(* for (const sourceAccount of sourceAccounts): the loop goes on to the    *)
(* next source whatever the scrape did, scrapeInstagramPosts catching its  *)
(* own failure and the loop body catching any other.                       *)
moreSources(pr, scrapeOk) == pr.si < Len(CurrentTask(pr).sourceUsername)

(* Mutant: the items of a later source go to the front of the batch *)
unshiftContent(allNewContent, contentWithSource) ==
    contentWithSource \o allNewContent

(* allNewContent.push(...contentWithSource) *)
pushContent(allNewContent, contentWithSource) ==
    allNewContent \o contentWithSource

(* One pass of the source loop: scrape one source account, then the delay  *)
(* between source checks.  A scrape that fails returns no content.         *)
FetchSource(p, scrapeOk) ==
    LET pr == proc[p]
        task == CurrentTask(pr)
        sourceAccounts == task.sourceUsername
        sourceAccount == sourceAccounts[pr.si]
        lastPostId == lastPostIdOf(task, sourceAccount)
        content == IF scrapeOk
                   THEN scrapeInstagramPosts(feed[sourceAccount], lastPostId,
                                             task.contentTypes)
                   ELSE <<>>
        contentWithSource ==
            [i \in 1..Len(content) |->
                [id |-> content[i].id, type |-> content[i].type,
                 sourceAccount |-> sourceAccount]]
        allNewContent == pushContent(pr.allNewContent, contentWithSource)
        totalNewContent == pr.totalNewContent + Len(content)
        fetched == [pr EXCEPT
                      !.allNewContent = allNewContent,
                      !.totalNewContent = totalNewContent,
                      !.si = @ + 1,
                      !.trace = @ \o
                          <<[ev |-> "fetch", sourceAccount |-> sourceAccount,
                             lastPostId |-> lastPostId, ok |-> scrapeOk,
                             shown |-> feed[sourceAccount], content |-> content],
                            [ev |-> "delay", ms |-> 2000]>>,
                      !.log = @ \o
                          <<Log("info", "checking", sourceAccount),
                            IF Len(content) > 0
                            THEN Log("success", "found", sourceAccount)
                            ELSE Log("info", "noNewFrom", sourceAccount)>>]
        more == moreSources(pr, scrapeOk)
    IN /\ pr.pc = "fetch"
       /\ proc' = [proc EXCEPT ![p] =
            IF more THEN fetched
            ELSE IF totalNewContent = 0
            THEN emptyBatch(p, [fetched EXCEPT
                    !.log = Append(@, LogN("info", "noNewContent", Len(sourceAccounts)))])
            ELSE [fetched EXCEPT
                    !.pc = "publish", !.ii = 1, !.di = 1,
                    !.log = @ \o <<LogN("info", "processing", totalNewContent),
                                   LogN("info", "item", allNewContent[1].id)>>]]
       /\ lastFetched' =
            IF Len(content) > 0
            THEN [lastFetched EXCEPT ![task.id][sourceAccount] = Last(content).id]
            ELSE lastFetched
       /\ UNCHANGED <<tasks, accounts, feed, now>>

(* Mutant: the try around the whole destination loop, so that a post that *)
(* throws ends the loop for the item                                      *)
lastDestinationOrFailure(pr, postOk) ==
    pr.di = Len(pr.destinationAccounts) \/ ~postOk

(* The destination loop is over when the pass for the last account ends,   *)
(* whether postToInstagram returned or threw: the try is inside the loop.  *)
lastDestination(pr, postOk) == pr.di = Len(pr.destinationAccounts)

(* One pass of the destination loop for the current item: the type check,  *)
(* postToInstagram and the delay after a post; after the last destination  *)
(* the delay between items.                                                *)
PublishOne(p, postOk) ==
    LET pr == proc[p]
        task == CurrentTask(pr)
        contentItem == pr.allNewContent[pr.ii]
        account == pr.destinationAccounts[pr.di]
        skip == ~shouldPost(contentItem, task)
        events ==
            IF skip THEN <<>>
            ELSE IF postOk
            THEN <<[ev |-> "publish", item |-> contentItem, to |-> account, ok |-> TRUE],
                   [ev |-> "delay", ms |-> 8000]>>
            ELSE <<[ev |-> "publish", item |-> contentItem, to |-> account, ok |-> FALSE]>>
        entry ==
            IF skip THEN Log("info", "skipping", contentItem.type)
            ELSE IF postOk THEN Log("success", "posted", account)
            ELSE Log("error", "failedToPost", account)
        lastDest == lastDestination(pr, postOk)
        lastItem == pr.ii = Len(pr.allNewContent)
        posted == [pr EXCEPT !.trace = @ \o events, !.log = Append(@, entry)]
    IN /\ pr.pc = "publish"
       /\ skip => postOk
       /\ proc' = [proc EXCEPT ![p] =
            LET onward ==
                    IF ~lastDest THEN [posted EXCEPT !.di = @ + 1]
                    ELSE IF ~lastItem
                    THEN [posted EXCEPT
                            !.ii = @ + 1, !.di = 1,
                            !.trace = Append(@, [ev |-> "delay", ms |-> 5000]),
                            !.log = Append(@, LogN("info", "item",
                                                   pr.allNewContent[pr.ii + 1].id))]
                    ELSE [posted EXCEPT
                            !.pc = "persist",
                            !.trace = Append(@, [ev |-> "delay", ms |-> 5000])]
            IN IF skip \/ postOk THEN onward ELSE afterPostError(p, posted, onward)]
       /\ UNCHANGED <<tasks, accounts, feed, now, lastFetched>>

(* Mutant: the single watermark of the one-source variants, taken from the *)
(* first item of the batch                                                 *)
lastPostIdFromFirstItem(lastPostIds, allNewContent) ==
    IF allNewContent = <<>> THEN lastPostIds
    ELSE LET first == Head(allNewContent)
         IN [s \in DOMAIN lastPostIds \cup {first.sourceAccount} |->
                IF s = first.sourceAccount THEN first.id ELSE lastPostIds[s]]

(* The loop that sets lastPostIds[contentItem.sourceAccount] for every     *)
(* item of the batch in turn.                                              *)
RECURSIVE updateLastPostIds(_, _)
updateLastPostIds(lastPostIds, allNewContent) ==
    IF allNewContent = <<>> THEN lastPostIds
    ELSE LET contentItem == Head(allNewContent)
             dom == DOMAIN lastPostIds \cup {contentItem.sourceAccount}
         IN updateLastPostIds(
                [s \in dom |-> IF s = contentItem.sourceAccount
                               THEN contentItem.id ELSE lastPostIds[s]],
                Tail(allNewContent))

findIndex(list, id) ==
    IF \E i \in 1..Len(list) : list[i].id = id
    THEN CHOOSE i \in 1..Len(list) :
            list[i].id = id /\ \A j \in 1..(i - 1) : list[j].id # id
    ELSE 0

(* Mutant: the map of watermarks is started afresh at every run *)
freshLastPostIds(stored) == <<>>

(* Mutant: only the items that some destination received are recorded *)
publishedContent(pr) ==
    SelectSeq(pr.allNewContent,
        LAMBDA item : \E k \in 1..Len(pr.trace) :
            /\ pr.trace[k].ev = "publish"
            /\ pr.trace[k].item = item
            /\ pr.trace[k].ok)

(* Mutant: the count is of the items some destination received *)
publishedCount(pr) == Len(publishedContent(pr))

(* tasks[taskIndex].lastProcessedCount = totalNewContent *)
processedCount(pr) == pr.totalNewContent

(* if (!tasks[taskIndex].lastPostIds) tasks[taskIndex].lastPostIds = {} *)
existingLastPostIds(stored) == stored.lastPostIds

(* The items the update loop goes over: the whole batch *)
recordedContent(pr) == pr.allNewContent

(* The task record as the end of a run rewrites it *)
(* Mutant: the write that puts the task back as enabled, as it was made *)
updatedTaskReenabled(stored, allNewContent, totalNewContent, time) ==
    [stored EXCEPT
        !.lastPostIds = updateLastPostIds(existingLastPostIds(stored), allNewContent),
        !.lastRun = time,
        !.lastProcessedCount = totalNewContent,
        !.enabled = TRUE]

(* Mutant: the write that leaves lastRun and lastProcessedCount as stored *)
updatedTaskWatermarksOnly(stored, allNewContent, totalNewContent, time) ==
    [stored EXCEPT
        !.lastPostIds = updateLastPostIds(existingLastPostIds(stored), allNewContent)]

updatedTask(stored, allNewContent, totalNewContent, time) ==
    [stored EXCEPT
        !.lastPostIds = updateLastPostIds(existingLastPostIds(stored), allNewContent),
        !.lastRun = time,
        !.lastProcessedCount = totalNewContent]

(* Mutant: the run does not end with the write of the task file, and       *)
(* writes it again                                                         *)
PersistAgain(p, writeOk) ==
    LET pr == proc[p]
        task == CurrentTask(pr)
        taskIndex == findIndex(tasks, task.id)
    IN /\ pr.pc = "persist"
       /\ writeOk
       /\ taskIndex > 0
       /\ tasks' = [tasks EXCEPT ![taskIndex] =
                    updatedTask(tasks[taskIndex], recordedContent(pr),
                                processedCount(pr), now)]
       /\ proc' = [proc EXCEPT ![p] =
            IF [ev |-> "save", ok |-> TRUE] \in Range(pr.trace)
            THEN AfterRun(p, [pr EXCEPT !.trace = Append(@, [ev |-> "save", ok |-> TRUE])])
            ELSE [pr EXCEPT !.trace = Append(@, [ev |-> "save", ok |-> TRUE])]]
       /\ UNCHANGED <<accounts, feed, now, lastFetched>>

(* Mutant: the write at the end of a run works on the list its caller read *)
(* when the run began                                                      *)
tasksOfCaller(pr) == pr.queue

(* const tasks = readTasks() at the end of runTask: the task file as it is *)
(* then, read and written with no await in between                         *)
readTasksAgain(pr) == tasks

(* Mutant: runTask without its catch, the failure of the write leaving it *)
writeFailureThrown(p, pr) == Rejected(p, pr)

(* catch (error) { addLog('Task execution failed ...', 'error') }: the end *)
(* of a run whose write threw; the entry for 'completed' is not reached.   *)
writeFailed(p, pr) ==
    AfterRun(p, [pr EXCEPT !.log = Append(@, Log("error", "executionFailed", ""))])

(* End of runTask: the task file is read again, the record with the run's  *)
(* task id is updated and the file written.  A write that throws lands in  *)
(* runTask's catch.                                                        *)
Persist(p, writeOk) ==
    LET pr == proc[p]
        task == CurrentTask(pr)
        stored == readTasksAgain(pr)
        taskIndex == findIndex(stored, task.id)
        saved == [ev |-> "save", ok |-> writeOk]
    IN /\ pr.pc = "persist"
       /\ taskIndex = 0 => writeOk
       /\ tasks' =
            IF taskIndex > 0 /\ writeOk
            THEN [stored EXCEPT ![taskIndex] =
                    updatedTask(stored[taskIndex], recordedContent(pr),
                                processedCount(pr), now)]
            ELSE tasks
       /\ proc' = [proc EXCEPT ![p] =
            LET written == [pr EXCEPT
                              !.trace = IF taskIndex > 0 THEN Append(@, saved) ELSE @]
            IN IF writeOk
               THEN AfterRun(p, [written EXCEPT
                       !.log = Append(@, LogN("success", "completed",
                                              pr.totalNewContent))])
               ELSE writeFailed(p, written)]
       /\ UNCHANGED <<accounts, feed, now, lastFetched>>

----------------------------------------------------------------------------------------------------------------------------------------------------
(* The timers and the endpoints *)

(* cron '*/5 * * * *': every enabled task *)
activeTasks(list) == SelectSeq(list, LAMBDA task : task.enabled)

(* cron '*/2 * * * *': && binds tighter than || in the filter *)
isPriority(task) ==
    \/ task.enabled /\ includes(toLowerCase(task.name), StrPriority)
    \/ includes(toLowerCase(task.name), StrUrgent)

priorityTasks(list) == SelectSeq(list, LAMBDA task : isPriority(task))

(* Mutant: a tick is skipped while a handler of a timer is in progress *)
tickWaitsForHandlers == \A q \in Timers \cup FiveMinute : proc[q].pc = "idle"

(* cron.schedule(expression, handler): the handler is called at every tick *)
(* of its expression; neither call passes an option nor keeps a flag of a  *)
(* handler in progress.                                                    *)
tickFires == TRUE

(* The handler of the 5-minute timer, in the slot p *)
Tick5At(p) ==
    LET selected == activeTasks(tasks)
        fresh == [IdleProc EXCEPT !.queue = selected]
    IN /\ tickFires
       /\ proc[p].pc = "idle"
       /\ proc' = [proc EXCEPT ![p] =
            IF Len(selected) = 0
            THEN [fresh EXCEPT !.log = <<Log("info", "check", ""),
                                         Log("info", "noActiveTasks", "")>>]
            ELSE BeginRun(p, [fresh EXCEPT !.qi = 1],
                          <<Log("info", "check", ""),
                            LogN("info", "processingTasks", Len(selected)),
                            Log("info", "executing", "")>>)]
       /\ UNCHANGED <<tasks, accounts, feed, now, lastFetched>>

Tick5 == Tick5At("tick5")

Tick2 ==
    LET p == "tick2"
        selected == priorityTasks(tasks)
        fresh == [IdleProc EXCEPT !.queue = selected]
    IN /\ tickFires
       /\ proc[p].pc = "idle"
       /\ proc' = [proc EXCEPT ![p] =
            IF Len(selected) = 0
            THEN fresh
            ELSE BeginRun(p, [fresh EXCEPT !.qi = 1],
                          <<LogN("info", "priorityCheck", Len(selected))>>)]
       /\ UNCHANGED <<tasks, accounts, feed, now, lastFetched>>

(* The delay after a task of a tick has passed: the loop takes the next    *)
(* task of the list it loaded, or the handler ends.                        *)
TickNext(p) ==
    LET pr == proc[p]
    IN /\ pr.pc = "between"
       /\ proc' = [proc EXCEPT ![p] =
            IF pr.qi < Len(pr.queue)
            THEN BeginRun(p, [pr EXCEPT !.qi = @ + 1],
                          IF p \in FiveMinute
                          THEN <<Log("info", "executing", "")>> ELSE <<>>)
            ELSE IdleProc]
       /\ UNCHANGED <<tasks, accounts, feed, now, lastFetched>>

(* POST /api/tasks/run *)
RunNow(taskId) ==
    LET p == "manual"
        taskIndex == findIndex(tasks, taskId)
    IN /\ proc[p].pc = "idle"
       /\ proc' = [proc EXCEPT ![p] =
            IF taskIndex = 0
            THEN [IdleProc EXCEPT !.response = 404]
            ELSE BeginRun(p, [IdleProc EXCEPT !.queue = <<tasks[taskIndex]>>,
                                              !.qi = 1], <<>>)]
       /\ UNCHANGED <<tasks, accounts, feed, now, lastFetched>>

(* String.prototype.split with a one-character separator *)
RECURSIVE split(_, _)
split(str, separator) ==
    IF \E i \in 1..Len(str) : str[i] = separator
    THEN LET i == CHOOSE k \in 1..Len(str) :
                    str[k] = separator /\ \A j \in 1..(k - 1) : str[j] # separator
         IN <<SubSeq(str, 1, i - 1)>> \o split(SubSeq(str, i + 1, Len(str)), separator)
    ELSE <<str>>

(* String.prototype.trim, of blanks *)
RECURSIVE trim(_)
trim(str) ==
    IF str = <<>> THEN str
    ELSE IF Head(str) = " " THEN trim(Tail(str))
    ELSE IF Last(str) = " " THEN trim(SubSeq(str, 1, Len(str) - 1))
    ELSE str

(* The spelling of the source account names, and the account a string names *)
Spelling ==
    [natgeo |-> <<"n","a","t","g","e","o">>,
     animalplanet |-> <<"a","n","i","m","a","l","p","l","a","n","e","t">>]

accountNamed(str) == CHOOSE s \in Sources : Spelling[s] = str

(* sourceUsername of a request body: a string or an array *)
SourceString(str) == [kind |-> "string", value |-> str]
SourceArray(list) == [kind |-> "array", value |-> list]

(* The source accounts of the new task: a string is split at its commas,   *)
(* each piece trimmed and the empty pieces dropped; an array is taken as   *)
(* it is.                                                                  *)
sourceAccountsOf(sourceUsername) ==
    IF sourceUsername.kind = "string"
    THEN LET pieces == split(sourceUsername.value, ",")
             trimmed == [i \in 1..Len(pieces) |-> trim(pieces[i])]
             kept == SelectSeq(trimmed, LAMBDA acc : acc # <<>>)
         IN [i \in 1..Len(kept) |-> accountNamed(kept[i])]
    ELSE sourceUsername.value

(* !name || !sourceUsername || !destinationAccounts || !contentTypes: a    *)
(* field is falsy when the body lacks it or when it is the empty string;   *)
(* an empty array and an empty object are truthy.                          *)
fieldsMissing(body) ==
    \/ "name" \in body.missing \/ body.name = <<>>
    \/ "sourceUsername" \in body.missing
    \/ (body.sourceUsername.kind = "string" /\ body.sourceUsername.value = <<>>)
    \/ "destinationAccounts" \in body.missing
    \/ "contentTypes" \in body.missing

(* The request bodies sent to the add-task endpoint *)
Bodies ==
    [name : {NameDaily, <<>>},
     sourceUsername :
        {SourceArray(<<"natgeo">>), SourceArray(<<>>),
         SourceString(<<>>), SourceString(<<" ", ",", " ">>),
         SourceString(Spelling.natgeo \o <<",", " ">> \o Spelling.animalplanet)},
     destinationAccounts : {{"x"}},
     contentTypes : {PostsReels},
     missing : {{}, {"contentTypes"}}]

(* POST /api/tasks/add: the id of the new task is the clock's value *)
AddTask(body, writeOk) ==
    LET sourceAccounts == sourceAccountsOf(body.sourceUsername)
        newTask == NewTask(now, body.name, sourceAccounts,
                           body.destinationAccounts, body.contentTypes)
    IN /\ Len(tasks) < MaxTasks
       /\ fieldsMissing(body) => writeOk
       /\ IF fieldsMissing(body)
          THEN /\ answer' = [status |-> 400, task |-> <<>>]
               /\ tasks' = tasks
          ELSE IF ~writeOk
          THEN /\ answer' = [status |-> 500, task |-> <<>>]
               /\ tasks' = tasks
          ELSE /\ answer' = [status |-> 200, task |-> <<newTask>>]
               /\ tasks' = Append(tasks, newTask)
       /\ UNCHANGED <<accounts, feed, now, proc, lastFetched, lastDone, logs, appended, adding>>

(* POST /api/tasks/toggle *)
SetEnabled(taskId, enabled) ==
    LET taskIndex == findIndex(tasks, taskId)
    IN /\ taskIndex > 0
       /\ tasks[taskIndex].enabled # enabled
       /\ tasks' = [tasks EXCEPT ![taskIndex].enabled = enabled]
       /\ UNCHANGED <<accounts, feed, now, proc, lastFetched>>

(* Mutant: the toggle endpoint answers success for a task it did not find *)
toggleAlwaysOk == [status |-> 200, task |-> <<>>]

(* return res.status(404).json({ error: 'Task not found' }) *)
toggleNotFound == [status |-> 404, task |-> <<>>]

(* POST /api/tasks/toggle with its response: a task id that is not in the  *)
(* file is answered 404 before anything is written.                        *)
Toggle(taskId, enabled) ==
    LET taskIndex == findIndex(tasks, taskId)
    IN /\ IF taskIndex = 0
          THEN /\ answer' = toggleNotFound
               /\ tasks' = tasks
          ELSE /\ answer' = [status |-> 200, task |-> <<>>]
               /\ tasks' = [tasks EXCEPT ![taskIndex].enabled = enabled]
       /\ UNCHANGED <<accounts, feed, now, proc, lastFetched, lastDone, logs,
                      appended, adding>>

----------------------------------------------------------------------------
(* The environment *)

monitored == UNION {Range(tasks[i].sourceUsername) : i \in 1..Len(tasks)}

(* A source account shows the next item it has *)
NewItem(sourceAccount) ==
    LET id == Len(feed[sourceAccount]) + 1
    IN /\ sourceAccount \in monitored
       /\ id <= Len(sourceContentMap[sourceAccount])
       /\ feed' = [feed EXCEPT ![sourceAccount] =
                    Append(@, [id |-> id, type |-> sourceContentMap[sourceAccount][id]])]
       /\ UNCHANGED <<tasks, accounts, now, proc, lastFetched>>

ClockTick ==
    /\ now < MaxClock
    /\ now' = now + 1
    /\ UNCHANGED <<tasks, accounts, feed, proc, lastFetched>>

----------------------------------------------------------------------------
(* The account endpoints *)

(* The add-account requests that may be in flight at once, and the names   *)
(* they carry                                                              *)
Requests == {"first", "second"}
Usernames == {"x", "y"}

NoRequest == [pc |-> "none", username |-> "", accounts |-> <<>>, status |-> 0]

(* POST /api/accounts/add up to the await of loginToInstagram: the account *)
(* store is read and the name looked up in it.                             *)
AddAccount(r, username) ==
    /\ adding[r].pc \in {"none", "done"}
    /\ adding' = [adding EXCEPT ![r] =
            IF \E i \in 1..Len(accounts) : accounts[i] = username
            THEN [pc |-> "done", username |-> username, accounts |-> accounts,
                  status |-> 400]
            ELSE [pc |-> "login", username |-> username, accounts |-> accounts,
                  status |-> 0]]
    /\ UNCHANGED <<tasks, accounts, feed, now, proc, lastFetched, lastDone,
                   answer, logs, appended>>

(* loginToInstagram settles: the session is pushed on the list the handler *)
(* read before the login and that list written; a login that throws is     *)
(* answered 500.                                                           *)
LoggedIn(r, loginOk) ==
    LET req == adding[r]
    IN /\ req.pc = "login"
       /\ loginOk => Len(req.accounts) < MaxAccounts
       /\ accounts' = IF loginOk THEN Append(req.accounts, req.username)
                      ELSE accounts
       /\ adding' = [adding EXCEPT ![r] =
                [req EXCEPT !.pc = "done",
                            !.status = IF loginOk THEN 200 ELSE 500]]
       /\ UNCHANGED <<tasks, feed, now, proc, lastFetched, lastDone,
                      answer, logs, appended>>

----------------------------------------------------------------------------
(* The legacy server: one source account and one lastPostId per task *)

LegacyTask(id, name, sourceUsername, destinationAccounts, contentTypes) ==
    [id |-> id, name |-> name, sourceUsername |-> sourceUsername,
     destinationAccounts |-> destinationAccounts, contentTypes |-> contentTypes,
     enabled |-> TRUE, lastRun |-> NoRun, lastPostId |-> NoPost]

(* scrapeInstagramPosts(username, lastPostId) *)
legacyScrape(demoPosts, lastPostId) ==
    IF lastPostId # NoPost
    THEN SelectSeq(demoPosts, LAMBDA post : post.id # lastPostId)
    ELSE demoPosts

(* tasks[taskIndex].lastPostId = posts[0].id *)
legacyLastPostId(posts) == posts[1].id

(* POST /api/tasks/run up to the await of the scrape in runTask *)
LegacyRunNow(taskId) ==
    LET p == "manual"
        taskIndex == findIndex(tasks, taskId)
    IN /\ proc[p].pc = "idle"
       /\ proc' = [proc EXCEPT ![p] =
            IF taskIndex = 0
            THEN [IdleProc EXCEPT !.response = 404]
            ELSE [IdleProc EXCEPT !.queue = <<tasks[taskIndex]>>, !.qi = 1,
                                  !.pc = "fetch",
                                  !.log = <<Log("info", "running", "")>>]]
       /\ UNCHANGED <<tasks, accounts, feed, now, lastFetched>>

(* The scrape returns: with no post the run returns, otherwise the         *)
(* destination accounts are read and the loops begin.                      *)
LegacyFetch(scrapeOk) ==
    LET p == "manual"
        pr == proc[p]
        task == CurrentTask(pr)
        posts == IF scrapeOk
                 THEN legacyScrape(feed[task.sourceUsername], task.lastPostId)
                 ELSE <<>>
        destinationAccounts ==
            SelectSeq(accounts, LAMBDA acc : acc \in task.destinationAccounts)
        fetched == [pr EXCEPT
                      !.allNewContent = posts,
                      !.totalNewContent = Len(posts),
                      !.destinationAccounts = destinationAccounts,
                      !.trace = Append(@,
                          [ev |-> "fetch", sourceAccount |-> task.sourceUsername,
                           lastPostId |-> task.lastPostId, ok |-> scrapeOk,
                           shown |-> feed[task.sourceUsername], content |-> posts])]
    IN /\ pr.pc = "fetch"
       /\ proc' = [proc EXCEPT ![p] =
            IF Len(posts) = 0
            THEN [fetched EXCEPT !.pc = "idle", !.response = 200,
                                 !.log = Append(@, Log("info", "noNewPosts", ""))]
            ELSE IF Len(destinationAccounts) = 0
            THEN [fetched EXCEPT !.pc = "persist"]
            ELSE [fetched EXCEPT !.pc = "publish", !.ii = 1, !.di = 1]]
       /\ UNCHANGED <<tasks, accounts, feed, now, lastFetched>>

(* One pass of the inner loop: postToInstagram for one post and account *)
LegacyPublish(postOk) ==
    LET p == "manual"
        pr == proc[p]
        post == pr.allNewContent[pr.ii]
        account == pr.destinationAccounts[pr.di]
        posted == [pr EXCEPT
                     !.trace = Append(@, [ev |-> "publish", item |-> post,
                                          to |-> account, ok |-> postOk]),
                     !.log = Append(@, IF postOk
                                       THEN Log("success", "posted", account)
                                       ELSE Log("error", "failedToPost", account))]
    IN /\ pr.pc = "publish"
       /\ proc' = [proc EXCEPT ![p] =
            IF pr.di < Len(pr.destinationAccounts)
            THEN [posted EXCEPT !.di = @ + 1]
            ELSE IF pr.ii < Len(pr.allNewContent)
            THEN [posted EXCEPT !.ii = @ + 1, !.di = 1]
            ELSE [posted EXCEPT !.pc = "persist"]]
       /\ UNCHANGED <<tasks, accounts, feed, now, lastFetched>>

(* End of the legacy runTask: the task file is read again and the task's   *)
(* lastPostId and lastRun written.                                         *)
LegacyPersist(writeOk) ==
    LET p == "manual"
        pr == proc[p]
        task == CurrentTask(pr)
        taskIndex == findIndex(tasks, task.id)
    IN /\ pr.pc = "persist"
       /\ taskIndex = 0 => writeOk
       /\ tasks' =
            IF taskIndex > 0 /\ writeOk
            THEN [tasks EXCEPT ![taskIndex] =
                    [@ EXCEPT !.lastPostId = legacyLastPostId(pr.allNewContent),
                              !.lastRun = now]]
            ELSE tasks
       /\ proc' = [proc EXCEPT ![p] =
            [pr EXCEPT
                !.pc = "idle", !.response = 200,
                !.trace = IF taskIndex > 0
                          THEN Append(@, [ev |-> "save", ok |-> writeOk]) ELSE @,
                !.log = IF writeOk THEN @
                        ELSE Append(@, Log("error", "executionFailed", ""))]]
       /\ UNCHANGED <<accounts, feed, now, lastFetched>>

(* The source account of a legacy task shows the next item it has *)
LegacyNewItem(sourceAccount) ==
    LET id == Len(feed[sourceAccount]) + 1
    IN /\ \E i \in 1..Len(tasks) : tasks[i].sourceUsername = sourceAccount
       /\ id <= Len(sourceContentMap[sourceAccount])
       /\ feed' = [feed EXCEPT ![sourceAccount] =
                    Append(@, [id |-> id, type |-> sourceContentMap[sourceAccount][id]])]
       /\ UNCHANGED <<tasks, accounts, now, proc, lastFetched>>

----------------------------------------------------------------------------
(* Specifications *)

InitCommon ==
    /\ feed = [s \in Sources |-> <<>>]
    /\ now = 1
    /\ proc = [p \in Procs |-> IdleProc]
    /\ lastFetched = [id \in TaskIds |-> [s \in Sources |-> NoPost]]
    /\ lastDone = [id \in TaskIds |-> <<>>]
    /\ answer = NoAnswer
    /\ logs = <<>>
    /\ appended = 0
    /\ adding = [r \in Requests |-> NoRequest]

(* The two timers over one task that both select *)
Init ==
    /\ InitCommon
    /\ accounts = <<"x">>
    /\ tasks = <<NewTask(1, NameUrgent, <<"natgeo">>, {"x"}, PostsReels)>>

Next ==
    \/ Tick5 /\ UNCHANGED <<lastDone, answer, logs, appended, adding>>
    \/ Tick2 /\ UNCHANGED <<lastDone, answer, logs, appended, adding>>
    \/ \E p \in Timers : TickNext(p) /\ UNCHANGED <<lastDone, answer, logs, appended, adding>>
    \/ \E p \in Timers, scrapeOk \in BOOLEAN :
            FetchSource(p, scrapeOk) /\ UNCHANGED <<lastDone, answer, logs, appended, adding>>
    \/ \E p \in Timers, postOk \in BOOLEAN :
            PublishOne(p, postOk) /\ UNCHANGED <<lastDone, answer, logs, appended, adding>>
    \/ \E p \in Timers, writeOk \in BOOLEAN :
            Persist(p, writeOk) /\ UNCHANGED <<lastDone, answer, logs, appended, adding>>
    \/ \E taskId \in TaskIds, enabled \in BOOLEAN :
            SetEnabled(taskId, enabled) /\ UNCHANGED <<lastDone, answer, logs, appended, adding>>
    \/ \E s \in Sources : NewItem(s) /\ UNCHANGED <<lastDone, answer, logs, appended, adding>>
    \/ ClockTick /\ UNCHANGED <<lastDone, answer, logs, appended, adding>>

Spec == Init /\ [][Next]_vars

(* Manual runs, one after the other, of a task with two sources *)
InitRun ==
    /\ InitCommon
    /\ accounts = <<"x", "y">>
    /\ \E destinationAccounts \in {{"x", "y"}, {"x", "z"}, {"z"}},
          contentTypes \in {PostsOnly, PostsReels} :
          tasks = <<NewTask(1, NameDaily, <<"natgeo", "animalplanet">>,
                            destinationAccounts, contentTypes)>>

(* History of the manual runs: when a run returns after it has written the *)
(* task file, its fetches become the latest completed run's of its task.   *)
RecordDone ==
    LET pr == proc["manual"]
        after == proc'["manual"]
    IN lastDone' =
         IF /\ pr.pc = "persist"
            /\ after.pc = "idle"
            /\ Last(after.trace) = [ev |-> "save", ok |-> TRUE]
         THEN [lastDone EXCEPT ![CurrentTask(pr).id] = FetchEvents(after.trace)]
         ELSE lastDone

NextRun ==
    \/ \E taskId \in RequestIds : RunNow(taskId) /\ RecordDone /\ UNCHANGED <<answer, logs, appended, adding>>
    \/ \E scrapeOk \in BOOLEAN : FetchSource("manual", scrapeOk) /\ RecordDone /\ UNCHANGED <<answer, logs, appended, adding>>
    \/ \E postOk \in BOOLEAN : PublishOne("manual", postOk) /\ RecordDone /\ UNCHANGED <<answer, logs, appended, adding>>
    \/ \E writeOk \in BOOLEAN : Persist("manual", writeOk) /\ RecordDone /\ UNCHANGED <<answer, logs, appended, adding>>
    \/ \E s \in Sources : NewItem(s) /\ RecordDone /\ UNCHANGED <<answer, logs, appended, adding>>
    \/ ClockTick /\ RecordDone /\ UNCHANGED <<answer, logs, appended, adding>>

SpecRun == InitRun /\ [][NextRun]_vars

(* The steps of a manual run.  Every await of runTask is on a scrape, a    *)
(* post or a timer; when each of them settles the run takes its next step. *)
RunStep ==
    \/ \E scrapeOk \in BOOLEAN :
            FetchSource("manual", scrapeOk) /\ RecordDone /\ UNCHANGED <<answer, logs, appended, adding>>
    \/ \E postOk \in BOOLEAN :
            PublishOne("manual", postOk) /\ RecordDone /\ UNCHANGED <<answer, logs, appended, adding>>
    \/ \E writeOk \in BOOLEAN :
            Persist("manual", writeOk) /\ RecordDone /\ UNCHANGED <<answer, logs, appended, adding>>

SpecRunFair == SpecRun /\ WF_vars(RunStep)

(* The 5-minute timer and the run-task endpoint over one task *)
InitManual ==
    /\ InitCommon
    /\ accounts = <<"x">>
    /\ tasks = <<NewTask(1, NameDaily, <<"natgeo">>, {"x"}, PostsReels)>>

NextManual ==
    \/ Tick5 /\ UNCHANGED <<lastDone, answer, logs, appended, adding>>
    \/ TickNext("tick5") /\ UNCHANGED <<lastDone, answer, logs, appended, adding>>
    \/ \E taskId \in RequestIds : RunNow(taskId) /\ UNCHANGED <<lastDone, answer, logs, appended, adding>>
    \/ \E p \in {"tick5", "manual"}, scrapeOk \in BOOLEAN :
            FetchSource(p, scrapeOk) /\ UNCHANGED <<lastDone, answer, logs, appended, adding>>
    \/ \E p \in {"tick5", "manual"}, postOk \in BOOLEAN :
            PublishOne(p, postOk) /\ UNCHANGED <<lastDone, answer, logs, appended, adding>>
    \/ \E p \in {"tick5", "manual"}, writeOk \in BOOLEAN :
            Persist(p, writeOk) /\ UNCHANGED <<lastDone, answer, logs, appended, adding>>
    \/ \E s \in Sources : NewItem(s) /\ UNCHANGED <<lastDone, answer, logs, appended, adding>>
    \/ ClockTick /\ UNCHANGED <<lastDone, answer, logs, appended, adding>>

SpecManual == InitManual /\ [][NextManual]_vars

(* The add-task endpoint and the 5-minute timer over the tasks it creates, *)
(* with every scrape, post and write of a run succeeding                   *)
InitApi ==
    /\ InitCommon
    /\ accounts = <<"x">>
    /\ tasks = <<>>

NextApi ==
    \/ \E body \in Bodies, writeOk \in BOOLEAN : AddTask(body, writeOk)
    \/ Tick5 /\ UNCHANGED <<lastDone, answer, logs, appended, adding>>
    \/ TickNext("tick5") /\ UNCHANGED <<lastDone, answer, logs, appended, adding>>
    \/ FetchSource("tick5", TRUE) /\ UNCHANGED <<lastDone, answer, logs, appended, adding>>
    \/ PublishOne("tick5", TRUE) /\ UNCHANGED <<lastDone, answer, logs, appended, adding>>
    \/ Persist("tick5", TRUE) /\ UNCHANGED <<lastDone, answer, logs, appended, adding>>
    \/ \E s \in Sources : NewItem(s) /\ UNCHANGED <<lastDone, answer, logs, appended, adding>>
    \/ ClockTick /\ UNCHANGED <<lastDone, answer, logs, appended, adding>>

SpecApi == InitApi /\ [][NextApi]_vars

(* The 5-minute timer over two tasks of one source, with the run-task and  *)
(* the toggle endpoints; every scrape, post and write of a run succeeds    *)
(* and the clock stands still                                              *)
InitQueue ==
    /\ InitCommon
    /\ accounts = <<"x">>
    /\ tasks = <<NewTask(1, NameDaily, <<"animalplanet">>, {"x"}, PostsOnly),
                 NewTask(2, NameDaily, <<"animalplanet">>, {"x"}, PostsOnly)>>

NextQueue ==
    \/ Tick5 /\ UNCHANGED <<lastDone, answer, logs, appended, adding>>
    \/ TickNext("tick5") /\ UNCHANGED <<lastDone, answer, logs, appended, adding>>
    \/ \E taskId \in RequestIds :
            RunNow(taskId) /\ UNCHANGED <<lastDone, answer, logs, appended, adding>>
    \/ \E p \in {"tick5", "manual"} :
            FetchSource(p, TRUE) /\ UNCHANGED <<lastDone, answer, logs, appended, adding>>
    \/ \E p \in {"tick5", "manual"} :
            PublishOne(p, TRUE) /\ UNCHANGED <<lastDone, answer, logs, appended, adding>>
    \/ \E p \in {"tick5", "manual"}, writeOk \in BOOLEAN :
            Persist(p, writeOk) /\ UNCHANGED <<lastDone, answer, logs, appended, adding>>
    \/ \E taskId \in TaskIds, enabled \in BOOLEAN :
            SetEnabled(taskId, enabled) /\ UNCHANGED <<lastDone, answer, logs, appended, adding>>
    \/ \E s \in Sources : NewItem(s) /\ UNCHANGED <<lastDone, answer, logs, appended, adding>>

SpecQueue == InitQueue /\ [][NextQueue]_vars

(* The log file under the calls of addLog *)
InitLog ==
    /\ InitCommon
    /\ accounts = <<>>
    /\ tasks = <<>>

NextLog == \E type \in {"info"} : addLog("entry", type)

SpecLog == InitLog /\ [][NextLog]_vars

----------------------------------------------------------------------------
(* Claims *)

(* A handler is inside the fetch / fan-out / persist steps of a run *)
InRun(p) == proc[p].pc \in {"fetch", "publish", "persist"}

(* C1: when the 5-minute and the 2-minute timer trigger a run of the same  *)
(* task id at overlapping times, at most one execution of the fetch /      *)
(* fan-out / persist steps of that task is active.                         *)
C1_RunMutualExclusion ==
    \A p \in Procs, q \in Procs :
        (p # q /\ InRun(p) /\ InRun(q))
            => CurrentTask(proc[p]).id # CurrentTask(proc[q]).id

(* C2: a task whose enabled flag is false when a timer tick loads the task *)
(* set is not submitted to runTask by that tick, whatever its name: every  *)
(* task a tick has submitted was enabled in the set it loaded.             *)
C2_DisabledNeverSubmitted ==
    \A p \in Timers :
        \A i \in 1..proc[p].qi : proc[p].queue[i].enabled

(* The watermark the task file holds for a source of a task *)
StoredWatermark(id, s) ==
    LET taskIndex == findIndex(tasks, id)
    IN IF taskIndex = 0 THEN NoPost ELSE lastPostIdOf(tasks[taskIndex], s)

(* C3: once the persisted watermark of a source is the last item of the    *)
(* latest non-empty fetch of that source, no step sets it back to an item  *)
(* of an earlier fetch.                                                    *)
C3_WatermarkNeverSetBack ==
    [][\A id \in TaskIds, s \in Sources :
          (/\ lastFetched[id][s] # NoPost
           /\ StoredWatermark(id, s) = lastFetched[id][s]
           /\ lastFetched'[id][s] = lastFetched[id][s])
              => StoredWatermark(id, s)' = lastFetched[id][s]]_vars

(* C4: if what a source shows is the same as at the fetch of the latest    *)
(* completed run of the task, a run returns as new no item that the earlier *)
(* run already fetched from that source.                                   *)
C4_NoRepostOfUnchangedContent ==
    LET pr == proc["manual"]
    IN InRun("manual") =>
         \A i \in 1..Len(pr.trace), j \in 1..Len(lastDone[CurrentTask(pr).id]) :
            LET e == pr.trace[i]
                d == lastDone[CurrentTask(pr).id][j]
            IN (/\ e.ev = "fetch"
                /\ e.sourceAccount = d.sourceAccount
                /\ e.shown = d.shown)
                   => Range(e.content) \cap Range(d.content) = {}

----------------------------------------------------------------------------
(* Claims about one run *)

(* Calls of postToInstagram a run has made for an item and an account *)
Attempts(trace, item, to) ==
    Cardinality({k \in 1..Len(trace) :
        /\ trace[k].ev = "publish"
        /\ trace[k].item = item
        /\ trace[k].to = to})

Publishes(trace) == SelectSeq(trace, LAMBDA e : e.ev = "publish")

(* The run is past the pass of the destination loop for item i, account j *)
PairDone(pr, i, j) ==
    \/ pr.pc \in {"persist", "idle", "between"}
    \/ pr.pc = "publish" /\ (i < pr.ii \/ (i = pr.ii /\ j < pr.di))

EnabledTypes(contentTypes) ==
    (IF contentTypes.posts THEN {"post"} ELSE {})
        \cup (IF contentTypes.reels THEN {"reel"} ELSE {})
        \cup (IF contentTypes.stories THEN {"story"} ELSE {})

(* C5: every (item, destination) pair of a run with an enabled content     *)
(* type is attempted exactly once, a failed publish skipping no remaining  *)
(* destination and no remaining item: a pair the loops have passed has one *)
(* attempt, a pair still ahead has none.                                   *)
C5_FanOutComplete ==
    \A p \in Procs :
        LET pr == proc[p]
        IN \A i \in 1..Len(pr.allNewContent), j \in 1..Len(pr.destinationAccounts) :
              pr.allNewContent[i].type \in EnabledTypes(CurrentTask(pr).contentTypes)
                 => Attempts(pr.trace, pr.allNewContent[i], pr.destinationAccounts[j])
                      = IF PairDone(pr, i, j) THEN 1 ELSE 0

(* A run of two items or more and two destinations whose first publish     *)
(* failed has finished its fan-out with every pair attempted.              *)
C5_Witness ==
    \E p \in Procs :
        LET pr == proc[p]
        IN /\ pr.pc = "persist"
           /\ Len(pr.allNewContent) >= 2
           /\ Len(pr.destinationAccounts) >= 2
           /\ ~Publishes(pr.trace)[1].ok
           /\ Len(Publishes(pr.trace))
                = Len(pr.allNewContent) * Len(pr.destinationAccounts)

(* C6: an item is passed to postToInstagram only if its type is enabled in *)
(* the task's contentTypes.                                                *)
C6_OnlyEnabledTypesPublished ==
    \A p \in Procs :
        \A k \in 1..Len(proc[p].trace) :
            proc[p].trace[k].ev = "publish"
                => proc[p].trace[k].item.type
                     \in EnabledTypes(CurrentTask(proc[p]).contentTypes)

(* A task enabling only posts has published from a source that showed a    *)
(* reel.                                                                   *)
C6_Witness ==
    \E p \in Procs :
        LET pr == proc[p]
        IN /\ Len(Publishes(pr.trace)) > 0
           /\ CurrentTask(pr).contentTypes = PostsOnly
           /\ \E k \in 1..Len(pr.trace) :
                /\ pr.trace[k].ev = "fetch"
                /\ \E n \in 1..Len(pr.trace[k].shown) :
                      pr.trace[k].shown[n].type = "reel"

(* What the fetch of a source returned in the run with this trace *)
FetchedFrom(trace, s) ==
    LET fetches == SelectSeq(trace, LAMBDA e : e.ev = "fetch" /\ e.sourceAccount = s)
    IN IF fetches = <<>> THEN <<>> ELSE fetches[1].content

(* The step is the write of the task file that ends p's run *)
SavedBy(p) ==
    /\ proc[p].pc = "persist"
    /\ [ev |-> "save", ok |-> TRUE] \in Range(proc'[p].trace)

(* The run of the manual slot has returned after writing the task file *)
ManualSaved ==
    /\ proc["manual"].pc = "idle"
    /\ [ev |-> "save", ok |-> TRUE] \in Range(proc["manual"].trace)

(* C7: the write that ends a run stores, for each source that returned at  *)
(* least one item in the run, the id of the last item that source returned.*)
C7_WatermarkIsLastFetchedPerSource ==
    [][\A p \in Procs : SavedBy(p) =>
          \A s \in Sources :
              FetchedFrom(proc[p].trace, s) # <<>>
                 => StoredWatermark(CurrentTask(proc[p]).id, s)'
                      = Last(FetchedFrom(proc[p].trace, s)).id]_vars

(* A run that fetched two items from one source and one from the other has *)
(* stored a different watermark for each.                                  *)
C7_Witness ==
    /\ ManualSaved
    /\ Len(FetchedFrom(proc["manual"].trace, "natgeo")) = 2
    /\ Len(FetchedFrom(proc["manual"].trace, "animalplanet")) = 1
    /\ StoredWatermark(1, "natgeo") = 2
    /\ StoredWatermark(1, "animalplanet") = 1

RECURSIVE SumFetched(_, _)
SumFetched(trace, sources) ==
    IF sources = {} THEN 0
    ELSE LET s == CHOOSE x \in sources : TRUE
         IN Len(FetchedFrom(trace, s)) + SumFetched(trace, sources \ {s})

StoredTask(id) == tasks[findIndex(tasks, id)]

(* C8: the write that ends a run leaves the watermark entry of every       *)
(* source that returned nothing as it was, absent or present, and sets     *)
(* lastProcessedCount to the number of items the other sources returned.   *)
C8_EmptySourceUntouched ==
    [][\A p \in Procs : SavedBy(p) =>
          LET id == CurrentTask(proc[p]).id
              old == StoredTask(id).lastPostIds
              new == StoredTask(id)'.lastPostIds
          IN /\ \A s \in Sources :
                  FetchedFrom(proc[p].trace, s) = <<>>
                     => /\ (s \in DOMAIN new) = (s \in DOMAIN old)
                        /\ s \in DOMAIN old => new[s] = old[s]
             /\ StoredTask(id)'.lastProcessedCount
                  = SumFetched(proc[p].trace, Sources)]_vars

(* A run in which natgeo returned items and animalplanet, whose watermark  *)
(* was set, returned nothing has been written.                             *)
C8_Witness ==
    /\ ManualSaved
    /\ FetchedFrom(proc["manual"].trace, "natgeo") # <<>>
    /\ \E k \in 1..Len(proc["manual"].trace) :
          LET e == proc["manual"].trace[k]
          IN /\ e.ev = "fetch"
             /\ e.sourceAccount = "animalplanet"
             /\ e.ok
             /\ e.content = <<>>
             /\ e.lastPostId = 1
    /\ StoredWatermark(1, "animalplanet") = 1
    /\ StoredTask(1).lastProcessedCount
         = Len(FetchedFrom(proc["manual"].trace, "natgeo"))

(* The watermarks a run is to write, from those stored and its fetches *)
ExpectedWatermarks(old, trace) ==
    [s \in DOMAIN old \cup {x \in Sources : FetchedFrom(trace, x) # <<>>} |->
        IF FetchedFrom(trace, s) # <<>>
        THEN Last(FetchedFrom(trace, s)).id
        ELSE old[s]]

(* C9: the watermarks the end of a run writes are decided by the stored    *)
(* watermarks and the run's fetches alone, whichever of its publish calls  *)
(* succeeded or failed.                                                    *)
C9_WatermarkIgnoresPublishOutcome ==
    [][\A p \in Procs : SavedBy(p) =>
          StoredTask(CurrentTask(proc[p]).id)'.lastPostIds
             = ExpectedWatermarks(StoredTask(CurrentTask(proc[p]).id).lastPostIds,
                                  proc[p].trace)]_vars

(* A run all of whose publish calls failed has advanced the watermark *)
C9_Witness ==
    /\ ManualSaved
    /\ Len(Publishes(proc["manual"].trace)) >= 2
    /\ \A k \in 1..Len(Publishes(proc["manual"].trace)) :
          ~Publishes(proc["manual"].trace)[k].ok
    /\ StoredWatermark(1, "natgeo") = 2

(* C10: a run none of whose destinations resolves to a known account logs  *)
(* an error and returns at once, with no publish call and the task file    *)
(* as it was.                                                              *)
C10_NoDestinationsNoEffect ==
    [][\A p \in Procs :
          LET after == proc'[p]
          IN (after # proc[p] /\ after.qi >= 1 /\ after.destinationAccounts = <<>>)
               => /\ after.pc \in {"idle", "between"}
                  /\ tasks' = tasks
                  /\ Publishes(after.trace) = <<>>
                  /\ Log("error", "noDestinations", "") \in Range(after.log)]_vars

(* A manual run of a task whose only destination is unknown has returned *)
C10_Witness ==
    LET pr == proc["manual"]
    IN /\ pr.pc = "idle"
       /\ pr.qi = 1
       /\ pr.response = 200
       /\ pr.destinationAccounts = <<>>
       /\ CurrentTask(pr).destinationAccounts = {"z"}
       /\ Last(pr.log) = Log("error", "noDestinations", "")
       /\ StoredTask(1).lastRun = NoRun
       /\ StoredTask(1).lastProcessedCount = NoCount
       /\ StoredTask(1).lastPostIds = <<>>

----------------------------------------------------------------------------
(* Claims about the run-task endpoint *)

(* C11: a manual run issued through the run-task endpoint while a run of   *)
(* the same task id is in flight starts no second execution of the task:   *)
(* no step takes the endpoint into the steps of a run of a task that a     *)
(* timer is running.                                                       *)
C11_ManualRunWaitsForRunInFlight ==
    [][(~InRun("manual") /\ proc'["manual"].pc \in {"fetch", "publish", "persist"})
          => \A p \in Timers :
                InRun(p) => CurrentTask(proc[p]).id
                              # CurrentTask(proc'["manual"]).id]_vars

----------------------------------------------------------------------------
(* Claims about failures within a run *)

(* The batch of a run, taken from what its fetches returned *)
RECURSIVE Fetched(_)
Fetched(fetches) ==
    IF fetches = <<>> THEN <<>>
    ELSE LET e == Head(fetches)
         IN [i \in 1..Len(e.content) |->
                [id |-> e.content[i].id, type |-> e.content[i].type,
                 sourceAccount |-> e.sourceAccount]] \o Fetched(Tail(fetches))

(* The run in the slot has got past the resolution of its destinations *)
Running(pr) == pr.qi >= 1 /\ pr.destinationAccounts # <<>>

(* C12: a fetch that fails does not abort the run.  A run past its source  *)
(* loop has fetched every source of the task once, in order, whichever of  *)
(* the fetches failed; its batch is what the fetches returned; and once    *)
(* its fan-out is over every item of the batch has been attempted on every *)
(* destination.                                                            *)
C12_FetchFailureSkipsOnlyItsSource ==
    \A p \in Procs :
        LET pr == proc[p]
            fetches == FetchEvents(pr.trace)
            sourceAccounts == CurrentTask(pr).sourceUsername
        IN Running(pr) =>
             /\ pr.pc = "fetch" => Len(fetches) = pr.si - 1
             /\ pr.pc # "fetch" => Len(fetches) = Len(sourceAccounts)
             /\ \A k \in 1..Len(fetches) : fetches[k].sourceAccount = sourceAccounts[k]
             /\ pr.allNewContent = Fetched(fetches)
             /\ pr.pc \in {"persist", "idle", "between"} =>
                   \A i \in 1..Len(pr.allNewContent), j \in 1..Len(pr.destinationAccounts) :
                       Attempts(pr.trace, pr.allNewContent[i], pr.destinationAccounts[j]) = 1

(* A run whose fetch of natgeo failed while natgeo had content to show has *)
(* fetched animalplanet and published its item.                            *)
C12_Witness ==
    LET pr == proc["manual"]
        fetches == FetchEvents(pr.trace)
    IN /\ Running(pr)
       /\ pr.pc = "persist"
       /\ Len(fetches) = 2
       /\ ~fetches[1].ok
       /\ fetches[1].sourceAccount = "natgeo"
       /\ fetches[1].shown # <<>>
       /\ fetches[2].ok
       /\ fetches[2].content # <<>>
       /\ \E k \in 1..Len(pr.trace) :
             /\ pr.trace[k].ev = "publish"
             /\ pr.trace[k].item.sourceAccount = "animalplanet"
             /\ pr.trace[k].ok

(* Entries a caller of runTask logs, or leaves in place of one, when       *)
(* runTask rejects                                                         *)
RejectionEntries ==
    {Log("error", "taskFailed", ""), Log("error", "unhandledRejection", "")}

(* C13: no failure of a fetch or of a publish call propagates out of       *)
(* runTask: no caller gets a rejection (the endpoint never answers 500, no *)
(* timer logs a failed task), and a manual run that has ended has answered *)
(* 200.                                                                    *)
C13_NoFailureLeavesRunTask ==
    \A p \in Procs :
        /\ proc[p].response # 500
        /\ Range(proc[p].log) \cap RejectionEntries = {}
        /\ (p = "manual" /\ proc[p].pc = "idle" /\ proc[p].qi >= 1)
              => proc[p].response = 200

(* A manual run with a failed fetch and a failed publish has returned to   *)
(* the endpoint, which has answered 200.                                   *)
C13_Witness ==
    LET pr == proc["manual"]
    IN /\ pr.pc = "idle"
       /\ pr.response = 200
       /\ \E k \in 1..Len(pr.trace) : pr.trace[k].ev = "fetch" /\ ~pr.trace[k].ok
       /\ \E k \in 1..Len(pr.trace) : pr.trace[k].ev = "publish" /\ ~pr.trace[k].ok

(* The run was fatal: no destination resolved, or the write of the task    *)
(* file failed                                                             *)
Fatal(pr) ==
    \/ Log("error", "noDestinations", "") \in Range(pr.log)
    \/ Log("error", "executionFailed", "") \in Range(pr.log)

(* C14: the caller of a manual run gets an error answer when the run was   *)
(* fatal and a success answer only when it was not.                        *)
C14_FatalRunAnswersError ==
    LET pr == proc["manual"]
    IN (pr.pc = "idle" /\ pr.qi >= 1) => (pr.response = 200 <=> ~Fatal(pr))

----------------------------------------------------------------------------
(* Claims about what a run records *)

(* The item has reached no destination in the run: it was skipped, or each *)
(* of its posts failed                                                     *)
Unpublished(trace, item) ==
    \A k \in 1..Len(trace) :
        (trace[k].ev = "publish" /\ trace[k].item = item) => ~trace[k].ok

(* C15: the write that ends a run sets lastProcessedCount to the number of *)
(* items of the batch, the sum of what the sources returned, not to the    *)
(* number published; an item of the batch that reached no destination is   *)
(* counted like any other and the watermark of its source is still set     *)
(* from the batch.                                                         *)
C15_CountIsFetchedNotPublished ==
    [][\A p \in Procs : SavedBy(p) =>
          LET pr == proc[p]
              stored == StoredTask(CurrentTask(pr).id)'
          IN /\ stored.lastProcessedCount = Len(pr.allNewContent)
             /\ stored.lastProcessedCount = Len(Fetched(FetchEvents(pr.trace)))
             /\ \A i \in 1..Len(pr.allNewContent) :
                   LET item == pr.allNewContent[i]
                   IN Unpublished(pr.trace, item) =>
                        /\ item.sourceAccount \in DOMAIN stored.lastPostIds
                        /\ \E j \in i..Len(pr.allNewContent) :
                              /\ pr.allNewContent[j].sourceAccount = item.sourceAccount
                              /\ stored.lastPostIds[item.sourceAccount]
                                    = pr.allNewContent[j].id]_vars

(* A run that fetched three items, of which only the first reached a       *)
(* destination, has stored the count 3 and the watermark of the last item. *)
C15_Witness ==
    LET pr == proc["manual"]
    IN /\ ManualSaved
       /\ Len(pr.allNewContent) = 3
       /\ ~Unpublished(pr.trace, pr.allNewContent[1])
       /\ Unpublished(pr.trace, pr.allNewContent[2])
       /\ Unpublished(pr.trace, pr.allNewContent[3])
       /\ StoredTask(1).lastProcessedCount = 3
       /\ StoredWatermark(1, "natgeo") = 2
       /\ StoredWatermark(1, "animalplanet") = 1

(* Publish attempts of a run with the given outcome *)
Outcomes(trace, ok) ==
    Cardinality({k \in 1..Len(trace) : trace[k].ev = "publish" /\ trace[k].ok = ok})

(* C16: the summary entry logged at the end of a run carries, besides the  *)
(* number of items processed, the number of publish attempts that          *)
(* succeeded and the number that failed.                                   *)
C16_SummaryReportsOutcomes ==
    \A p \in Procs :
        \A k \in 1..Len(proc[p].log) :
            LET entry == proc[p].log[k]
            IN entry.message = "completed" =>
                 /\ entry.n = proc[p].totalNewContent
                 /\ {"succeeded", "failed"} \subseteq DOMAIN entry
                 /\ entry.succeeded = Outcomes(proc[p].trace, TRUE)
                 /\ entry.failed = Outcomes(proc[p].trace, FALSE)

----------------------------------------------------------------------------
(* Claims about the tasks of the repository *)

(* C17: the keys of a task's lastPostIds are among the task's source       *)
(* accounts.                                                               *)
C17_WatermarkKeysAreSources ==
    \A i \in 1..Len(tasks) :
        DOMAIN tasks[i].lastPostIds \subseteq Range(tasks[i].sourceUsername)

(* C18: no two tasks of the repository share an id, and no step changes    *)
(* the id of a task.                                                       *)
C18_TaskIdsUniqueAndFixed ==
    [][/\ \A i \in 1..Len(tasks') : \A j \in 1..Len(tasks') :
             tasks'[i].id = tasks'[j].id => i = j
       /\ \A i \in 1..Len(tasks) :
             i <= Len(tasks') /\ tasks'[i].id = tasks[i].id]_vars

(* C19: every task of the repository has at least one source account.     *)
C19_TaskHasASource ==
    \A i \in 1..Len(tasks) : Len(tasks[i].sourceUsername) >= 1

(* The step is a request to add a task that the endpoint answers with 200 *)
TaskCreated ==
    /\ answer'.status = 200
    /\ answer' # answer \/ Len(tasks') > Len(tasks)

(* C20: the task in the answer to an add-task request is, when the answer  *)
(* is given, the newest task of the repository, enabled, with no watermark *)
(* and no lastRun.                                                         *)
C20_CreatedTaskIsPersisted ==
    [][TaskCreated =>
          LET task == answer'.task[1]
          IN /\ Len(tasks') = Len(tasks) + 1
             /\ SubSeq(tasks', 1, Len(tasks)) = tasks
             /\ Last(tasks') = task
             /\ task.enabled
             /\ task.lastPostIds = <<>>
             /\ task.lastRun = NoRun]_vars

(* A task created from the string "natgeo, animalplanet" after another one *)
(* is in the repository as it was answered, not yet run.                   *)
C20_Witness ==
    /\ answer.status = 200
    /\ Len(tasks) = 2
    /\ Last(tasks) = answer.task[1]
    /\ Last(tasks).sourceUsername = <<"natgeo", "animalplanet">>
    /\ Last(tasks).enabled
    /\ Last(tasks).lastRun = NoRun
    /\ tasks[1].lastRun # NoRun

----------------------------------------------------------------------------
(* Claims about the log *)

(* C21: the log file holds at most 1000 entries, and they are the entries  *)
(* of the latest calls of addLog, in the order of the calls.               *)
C21_LogKeepsLatestThousand ==
    /\ Len(logs) <= LogCap
    /\ Len(logs) = IF appended < LogCap THEN appended ELSE LogCap
    /\ \A i \in 1..Len(logs) : logs[i].n = (appended - Len(logs)) + i

(* More entries than the cap have been appended and the oldest are gone *)
C21_Witness ==
    /\ appended = LogCap + 2
    /\ Len(logs) = LogCap
    /\ logs[1].n = 3
    /\ Last(logs).n = appended

----------------------------------------------------------------------------
(* Claims about the course of a run *)

(* A request to run the task is answered by a run of it *)
StartsRun(taskId) ==
    /\ RunNow(taskId)
    /\ proc'["manual"].qi = 1
    /\ CurrentTask(proc'["manual"]).id = taskId

EntersRun(p) ==
    /\ proc'[p].pc = "fetch"
    /\ proc[p].pc # "fetch"

(* C23: the watermarks a run fetches with are those the task file holds    *)
(* for the task when the run starts.                                       *)
C23_RunStartsFromStoredWatermarks ==
    [][\A p \in Procs : EntersRun(p) =>
          LET task == CurrentTask(proc'[p])
          IN \A s \in Range(task.sourceUsername) :
                lastPostIdOf(task, s) = StoredWatermark(task.id, s)]_vars

(* C25: a timer's loop starts no run of a task that the task file holds    *)
(* as disabled when the task's turn comes.                                 *)
C25_DisabledBeforeTurnIsSkipped ==
    [][\A p \in Timers :
          (proc'[p].qi # proc[p].qi /\ proc'[p].qi >= 1)
             => StoredTask(CurrentTask(proc'[p]).id).enabled]_vars

(* The delays, in ms, a run took between the events a and b of its trace *)
RECURSIVE Waited(_, _, _)
Waited(trace, a, b) ==
    IF a + 1 >= b THEN 0
    ELSE (IF trace[a + 1].ev = "delay" THEN trace[a + 1].ms ELSE 0)
            + Waited(trace, a + 1, b)

(* Pairs of publish calls of a run with no publish call between them *)
ConsecutivePublishes(trace) ==
    {ab \in (1..Len(trace)) \X (1..Len(trace)) :
        /\ ab[1] < ab[2]
        /\ trace[ab[1]].ev = "publish"
        /\ trace[ab[2]].ev = "publish"
        /\ \A k \in (ab[1] + 1)..(ab[2] - 1) : trace[k].ev # "publish"}

(* C24: within a run a delay lies between every two consecutive publish    *)
(* calls, whether the earlier succeeded or failed, and the delay between   *)
(* the last publish of an item and the first of the next item is larger    *)
(* than the delay between two publishes of one item.                       *)
C24_DelayBetweenPublishes ==
    \A p \in Procs :
        LET trace == proc[p].trace
            pairs == ConsecutivePublishes(trace)
        IN /\ \A ab \in pairs : Waited(trace, ab[1], ab[2]) > 0
           /\ \A ab \in pairs, cd \in pairs :
                 (/\ trace[ab[1]].item # trace[ab[2]].item
                  /\ trace[cd[1]].item = trace[cd[2]].item)
                    => Waited(trace, ab[1], ab[2]) > Waited(trace, cd[1], cd[2])

(* Writes of the task file in a run's trace *)
Saves(trace) == {k \in 1..Len(trace) : trace[k].ev = "save"}

(* C26: a run writes the task file at most once, after the last publish    *)
(* attempt of its batch, and not at all when it ends early for want of a   *)
(* destination or of new content; and nothing but the end of a run changes *)
(* a task's record.                                                        *)
C26_TaskWrittenOnceAtEnd ==
    [][/\ tasks' # tasks =>
            \E p \in Procs : SavedBy(p) /\ Saves(proc[p].trace) = {}
       /\ \A p \in Procs :
            LET pr == proc'[p]
            IN /\ Cardinality(Saves(pr.trace)) <= 1
               /\ \A k \in Saves(pr.trace) :
                     /\ \A j \in 1..Len(pr.trace) : pr.trace[j].ev = "publish" => j < k
                     /\ pr.destinationAccounts # <<>>
                     /\ pr.allNewContent # <<>>
                     /\ \A i \in 1..Len(pr.allNewContent),
                           j \in 1..Len(pr.destinationAccounts) :
                           Attempts(pr.trace, pr.allNewContent[i],
                                    pr.destinationAccounts[j]) = 1]_vars

(* A run of two destinations has written the task file, once, after its    *)
(* publish attempts, one of which failed.                                  *)
C26_Witness ==
    LET pr == proc["manual"]
    IN /\ ManualSaved
       /\ Cardinality(Saves(pr.trace)) = 1
       /\ Len(Publishes(pr.trace)) >= 2
       /\ \E k \in 1..Len(pr.trace) : pr.trace[k].ev = "publish" /\ ~pr.trace[k].ok
       /\ StoredTask(1).lastRun # NoRun

(* C27: a run all of whose sources return nothing logs that there is no    *)
(* new content and returns from its source loop, with no publish call and  *)
(* no write: the task file stays as it is.                                 *)
C27_EmptyBatchNoEffect ==
    [][\A p \in Procs :
          LET pr == proc'[p]
          IN /\ (proc[p].pc = "fetch" /\ pr.pc # "fetch" /\ pr.allNewContent = <<>>)
                  => /\ pr.pc \in {"idle", "between"}
                     /\ tasks' = tasks
                     /\ Last(pr.log) = LogN("info", "noNewContent",
                                            Len(CurrentTask(pr).sourceUsername))
             /\ (Running(pr) /\ pr.allNewContent = <<>>)
                  => /\ pr.pc \in {"fetch", "idle", "between"}
                     /\ Publishes(pr.trace) = <<>>
                     /\ Saves(pr.trace) = {}]_vars

(* After a run that stored a watermark for natgeo, a second run found      *)
(* nothing new at either source and has returned, the watermark and the    *)
(* count being those of the first run.                                     *)
C27_Witness ==
    LET pr == proc["manual"]
        fetches == FetchEvents(pr.trace)
    IN /\ lastDone[1] # <<>>
       /\ pr.pc = "idle"
       /\ Running(pr)
       /\ Len(fetches) = 2
       /\ fetches[1].shown # <<>>
       /\ \A k \in 1..Len(fetches) : fetches[k].ok /\ fetches[k].content = <<>>
       /\ Last(pr.log).message = "noNewContent"
       /\ StoredWatermark(1, "natgeo") = 1
       /\ StoredTask(1).lastProcessedCount = 1

(* C28: the publish attempts of a run come in one order: the sources in    *)
(* the order the task lists them, the items of a source as the source      *)
(* returned them, and for each item every destination account, in the      *)
(* order of the account store, before the next item; an attempt that fails *)
(* leaves the order as it is.                                              *)
C28_PublishOrderFixed ==
    \A p \in Procs :
        LET pr == proc[p]
            fetches == FetchEvents(pr.trace)
            batch == Fetched(fetches)
            attempts == Publishes(pr.trace)
            D == Len(pr.destinationAccounts)
        IN Running(pr) =>
              /\ \A k \in 1..Len(fetches) :
                     fetches[k].sourceAccount = CurrentTask(pr).sourceUsername[k]
              /\ Len(attempts) <= Len(batch) * D
              /\ \A k \in 1..Len(attempts) :
                     /\ attempts[k].item = batch[((k - 1) \div D) + 1]
                     /\ attempts[k].to = pr.destinationAccounts[((k - 1) % D) + 1]

(* Three items from two sources have been attempted at two destinations,   *)
(* six attempts in all, one of the first five having failed.               *)
C28_Witness ==
    LET pr == proc["manual"]
        attempts == Publishes(pr.trace)
    IN /\ Running(pr)
       /\ Len(attempts) = 6
       /\ Len(pr.destinationAccounts) = 2
       /\ attempts[1].item.sourceAccount # attempts[6].item.sourceAccount
       /\ \E k \in 1..5 : ~attempts[k].ok

(* C29: when the write of the task file at the end of a run throws, the    *)
(* run logs an error, the entry for 'completed' is not logged for it, and  *)
(* runTask returns: its caller sees no failure and the file is as before.  *)
C29_WriteFailureLoggedNotThrown ==
    [][\A p \in Procs :
          LET pr == proc'[p]
          IN (/\ proc[p].pc = "persist"
              /\ pr.pc # "persist"
              /\ Last(pr.trace) = [ev |-> "save", ok |-> FALSE])
                 => /\ Last(pr.log) = Log("error", "executionFailed", "")
                    /\ \A e \in Range(pr.log) :
                          e.message \notin {"completed", "taskFailed",
                                            "unhandledRejection"}
                    /\ pr.pc \in {"idle", "between"}
                    /\ pr.response # 500
                    /\ p = "manual" => pr.response = 200
                    /\ tasks' = tasks]_vars

(* A manual run has published an item and then failed to write the task    *)
(* file: the endpoint has answered 200 and the watermark is not stored.    *)
C29_Witness ==
    LET pr == proc["manual"]
    IN /\ Running(pr)
       /\ pr.pc = "idle"
       /\ pr.response = 200
       /\ Last(pr.trace) = [ev |-> "save", ok |-> FALSE]
       /\ \E e \in Range(Publishes(pr.trace)) : e.ok
       /\ Last(pr.log).type = "error"
       /\ StoredWatermark(1, "natgeo") = NoPost

(* C30: a destination the task names that is not in the account store is   *)
(* never published to and has an error logged for it, while every item of  *)
(* the batch is still attempted at the destinations that are in the store. *)
C30_UnknownDestinationLogged ==
    \A p \in Procs :
        LET pr == proc[p]
            task == CurrentTask(pr)
            known == {accounts[k] : k \in 1..Len(accounts)}
        IN Running(pr) =>
              /\ \A d \in task.destinationAccounts \ known :
                     /\ \A e \in Range(Publishes(pr.trace)) : e.to # d
                     /\ \E e \in Range(pr.log) :
                           /\ e.type = "error"
                           /\ e.about = d \/ e.message = "noDestinations"
              /\ Range(pr.destinationAccounts) = task.destinationAccounts \cap known
              /\ pr.pc \in {"idle", "between"} /\ pr.allNewContent # <<>>
                    => \A i \in 1..Len(pr.allNewContent),
                          j \in 1..Len(pr.destinationAccounts) :
                          Attempts(pr.trace, pr.allNewContent[i],
                                   pr.destinationAccounts[j]) = 1

(* The two timers with two handlers of the 5-minute timer, over one task   *)
(* that both timers select                                                 *)
InitTicks ==
    /\ InitCommon
    /\ accounts = <<"x">>
    /\ tasks = <<NewTask(1, NameUrgent, <<"animalplanet">>, {"x"}, PostsOnly)>>

NextTicks ==
    \/ \E p \in FiveMinute :
            Tick5At(p) /\ UNCHANGED <<lastDone, answer, logs, appended, adding>>
    \/ Tick2 /\ UNCHANGED <<lastDone, answer, logs, appended, adding>>
    \/ \E p \in Timers \cup FiveMinute :
            TickNext(p) /\ UNCHANGED <<lastDone, answer, logs, appended, adding>>
    \/ \E p \in Timers \cup FiveMinute :
            FetchSource(p, TRUE) /\ UNCHANGED <<lastDone, answer, logs, appended, adding>>
    \/ \E p \in Timers \cup FiveMinute :
            PublishOne(p, TRUE) /\ UNCHANGED <<lastDone, answer, logs, appended, adding>>
    \/ \E p \in Timers \cup FiveMinute :
            Persist(p, TRUE) /\ UNCHANGED <<lastDone, answer, logs, appended, adding>>
    \/ \E s \in Sources : NewItem(s) /\ UNCHANGED <<lastDone, answer, logs, appended, adding>>

SpecTicks == InitTicks /\ [][NextTicks]_vars

(* The toggle and add-task endpoints called while a manual run is between  *)
(* two of its awaits                                                       *)
InitInFlight ==
    /\ InitCommon
    /\ accounts = <<"x">>
    /\ tasks = <<NewTask(1, NameDaily, <<"animalplanet">>, {"x"}, PostsOnly)>>

BodyInFlight ==
    [name |-> NameDaily, sourceUsername |-> SourceArray(<<"natgeo">>),
     destinationAccounts |-> {"x"}, contentTypes |-> PostsReels, missing |-> {}]

NextInFlight ==
    \/ \E taskId \in RequestIds : RunNow(taskId) /\ UNCHANGED <<lastDone, answer, logs, appended, adding>>
    \/ FetchSource("manual", TRUE) /\ UNCHANGED <<lastDone, answer, logs, appended, adding>>
    \/ PublishOne("manual", TRUE) /\ UNCHANGED <<lastDone, answer, logs, appended, adding>>
    \/ Persist("manual", TRUE) /\ UNCHANGED <<lastDone, answer, logs, appended, adding>>
    \/ \E taskId \in TaskIds, enabled \in BOOLEAN :
            proc["manual"].pc # "idle" /\ SetEnabled(taskId, enabled) /\ UNCHANGED <<lastDone, answer, logs, appended, adding>>
    \/ proc["manual"].pc # "idle" /\ AddTask(BodyInFlight, TRUE)
    \/ \E s \in Sources : NewItem(s) /\ UNCHANGED <<lastDone, answer, logs, appended, adding>>
    \/ ClockTick /\ UNCHANGED <<lastDone, answer, logs, appended, adding>>

SpecInFlight == InitInFlight /\ [][NextInFlight]_vars

(* The account endpoints, two add-account requests at a time *)
InitAccounts ==
    /\ InitCommon
    /\ accounts = <<>>
    /\ tasks = <<>>

NextAccounts ==
    \/ \E r \in Requests, username \in Usernames : AddAccount(r, username)
    \/ \E r \in Requests, loginOk \in BOOLEAN : LoggedIn(r, loginOk)

SpecAccounts == InitAccounts /\ [][NextAccounts]_vars

(* The toggle and run-task endpoints, asked for tasks that exist and for   *)
(* one that does not                                                       *)
InitRequests ==
    /\ InitCommon
    /\ accounts = <<"x">>
    /\ tasks = <<NewTask(1, NameDaily, <<"animalplanet">>, {"x"}, PostsOnly)>>

NextRequests ==
    \/ \E taskId \in RequestIds : RunNow(taskId) /\ UNCHANGED <<lastDone, answer, logs, appended, adding>>
    \/ FetchSource("manual", TRUE) /\ UNCHANGED <<lastDone, answer, logs, appended, adding>>
    \/ PublishOne("manual", TRUE) /\ UNCHANGED <<lastDone, answer, logs, appended, adding>>
    \/ Persist("manual", TRUE) /\ UNCHANGED <<lastDone, answer, logs, appended, adding>>
    \/ \E taskId \in RequestIds, enabled \in BOOLEAN : Toggle(taskId, enabled)
    \/ \E s \in Sources : NewItem(s) /\ UNCHANGED <<lastDone, answer, logs, appended, adding>>
    \/ ClockTick /\ UNCHANGED <<lastDone, answer, logs, appended, adding>>

SpecRequests == InitRequests /\ [][NextRequests]_vars

(* Manual runs on the legacy server *)
InitLegacy ==
    /\ InitCommon
    /\ accounts = <<"x", "y">>
    /\ \E destinationAccounts \in {{"x", "y"}, {"x"}} :
          tasks = <<LegacyTask(1, NameDaily, "natgeo", destinationAccounts, PostsReels)>>

NextLegacy ==
    \/ \E taskId \in RequestIds : LegacyRunNow(taskId) /\ UNCHANGED <<lastDone, answer, logs, appended, adding>>
    \/ \E scrapeOk \in BOOLEAN : LegacyFetch(scrapeOk) /\ UNCHANGED <<lastDone, answer, logs, appended, adding>>
    \/ \E postOk \in BOOLEAN : LegacyPublish(postOk) /\ UNCHANGED <<lastDone, answer, logs, appended, adding>>
    \/ \E writeOk \in BOOLEAN : LegacyPersist(writeOk) /\ UNCHANGED <<lastDone, answer, logs, appended, adding>>
    \/ \E s \in Sources : LegacyNewItem(s) /\ UNCHANGED <<lastDone, answer, logs, appended, adding>>
    \/ ClockTick /\ UNCHANGED <<lastDone, answer, logs, appended, adding>>

SpecLegacy == InitLegacy /\ [][NextLegacy]_vars

----------------------------------------------------------------------------
(* Claims about the timers *)

(* The name holds 'priority' or 'urgent' in some letter case *)
PrioritySignal(name) ==
    \/ includes(toLowerCase(name), StrPriority)
    \/ includes(toLowerCase(name), StrUrgent)

(* C31: the 2-minute timer selects exactly the tasks that are enabled and  *)
(* whose name holds 'priority' or 'urgent' in any letter case.             *)
C31_PriorityTimerSelection ==
    [][(proc["tick2"].pc = "idle" /\ proc'["tick2"] # proc["tick2"])
          => proc'["tick2"].queue =
                SelectSeq(tasks, LAMBDA task :
                                    task.enabled /\ PrioritySignal(task.name))]_vars

(* C32: a timer runs the tasks it selected one at a time: the run of the   *)
(* next task starts only when the run before it has returned and the delay *)
(* between tasks has passed, whether that run published, found nothing or  *)
(* failed.                                                                 *)
C32_TasksOfTickInSequence ==
    [][\A p \in Timers :
          (proc'[p].qi # proc[p].qi /\ proc'[p].qi > 1)
             => /\ proc'[p].qi = proc[p].qi + 1
                /\ proc'[p].queue = proc[p].queue
                /\ proc[p].pc = "between"
                /\ proc[p].trace # <<>>
                /\ Last(proc[p].trace) = [ev |-> "delay", ms |-> InterTaskDelay(p)]]_vars

(* The 5-minute timer is in the run of its second task, the run of its     *)
(* first having fetched an item and failed to write the task file.         *)
C32_Witness ==
    LET pr == proc["tick5"]
    IN /\ pr.qi = 2
       /\ pr.pc = "fetch"
       /\ proc["manual"] = IdleProc
       /\ lastFetched[pr.queue[1].id]["animalplanet"] # NoPost
       /\ \A i \in 1..Len(tasks) : tasks[i].lastRun = NoRun

----------------------------------------------------------------------------
(* Claims about the content source *)

(* C34: every item scrapeInstagramPosts returns has a type enabled in      *)
(* contentTypes and an id other than lastPostId; with no lastPostId it     *)
(* returns every item of an enabled type that the source shows.            *)
C34_ScrapeFiltersTypeAndWatermark ==
    \A p \in Procs :
        LET pr == proc[p]
            fetches == FetchEvents(pr.trace)
            enabled == EnabledTypes(CurrentTask(pr).contentTypes)
        IN \A k \in 1..Len(fetches) :
              LET e == fetches[k]
              IN e.ok =>
                    /\ \A i \in 1..Len(e.content) :
                           /\ e.content[i].type \in enabled
                           /\ e.content[i].id # e.lastPostId
                    /\ e.lastPostId = NoPost
                          => e.content = SelectSeq(e.shown, LAMBDA item : item.type \in enabled)

(* A scrape with a watermark returned some of what the source showed, and  *)
(* a scrape of the same run had no watermark and a source that showed      *)
(* something.                                                              *)
C34_Witness ==
    LET fetches == FetchEvents(proc["manual"].trace)
    IN /\ \E k \in 1..Len(fetches) :
             /\ fetches[k].ok
             /\ fetches[k].lastPostId # NoPost
             /\ fetches[k].content # <<>>
             /\ Len(fetches[k].content) < Len(fetches[k].shown)
       /\ \E k \in 1..Len(fetches) :
             /\ fetches[k].ok
             /\ fetches[k].lastPostId = NoPost
             /\ fetches[k].shown # <<>>

----------------------------------------------------------------------------
(* Claims about the end of a run *)

(* The run in slot p takes its last step, from the end of the fan-out *)
EndsRun(p) == proc[p].pc = "persist" /\ proc'[p].pc # "persist"

(* The record of the run's task after the step carries the time of the     *)
(* step and the size of the run's batch                                    *)
RunRecorded(p) ==
    LET taskIndex == findIndex(tasks', CurrentTask(proc[p]).id)
    IN /\ taskIndex > 0
       /\ tasks'[taskIndex].lastRun = now
       /\ tasks'[taskIndex].lastProcessedCount = proc[p].totalNewContent

(* Every run comes to its end, its awaits all settling *)
RunTerminates == \A p \in {"manual"} : InRun(p) ~> (proc[p].pc = "idle")

(* C35 as stated: every run terminates, and every run that reached the     *)
(* fan-out ends with lastRun and lastProcessedCount written to the task    *)
(* file.                                                                   *)
C35_RunEndsRecorded ==
    /\ RunTerminates
    /\ [][\A p \in Procs : EndsRun(p) => RunRecorded(p)]_vars

(* C35 with the condition it lacks: every run terminates, and every run    *)
(* that reached the fan-out and whose write of the task file did not throw *)
(* ends with lastRun and lastProcessedCount written to it.                 *)
C35_RunEndsRecordedIfWritten ==
    /\ RunTerminates
    /\ [][\A p \in Procs :
             (EndsRun(p) /\ Last(proc'[p].trace) = [ev |-> "save", ok |-> TRUE])
                => RunRecorded(p)]_vars

(* A manual run has gone through its fan-out and returned, the task file   *)
(* carrying its count and a time of run.                                   *)
C35_Witness ==
    LET pr == proc["manual"]
    IN /\ pr.pc = "idle"
       /\ Running(pr)
       /\ Publishes(pr.trace) # <<>>
       /\ Last(pr.trace) = [ev |-> "save", ok |-> TRUE]
       /\ StoredTask(1).lastRun # NoRun
       /\ StoredTask(1).lastProcessedCount = pr.totalNewContent

----------------------------------------------------------------------------
(* Claims about the legacy server *)

(* C36: on the server with one source per task, the write that ends a run  *)
(* with a fetch that returned something stores as lastPostId the id of the *)
(* last item of the list the source returned.                              *)
C36_LegacyWatermarkIsLastItem ==
    [][LET pr == proc["manual"]
       IN (/\ pr.pc = "persist"
           /\ proc'["manual"].pc = "idle"
           /\ Last(proc'["manual"].trace) = [ev |-> "save", ok |-> TRUE])
             => StoredTask(CurrentTask(pr).id)'.lastPostId
                    = Last(pr.allNewContent).id]_vars

----------------------------------------------------------------------------
(* Claims about the task file under requests made during a run *)

(* C37: the write that ends a run keeps what the toggle and add-task       *)
(* endpoints wrote while the run was in flight: every task of the file is  *)
(* still there, in its place and with the enabled flag it had, whatever    *)
(* the run's own copy of its task says.                                    *)
C37_RequestsInFlightKept ==
    [][\A p \in Procs :
          (SavedBy(p) /\ proc'[p].pc # "persist")
             => /\ Len(tasks') = Len(tasks)
                /\ \A i \in 1..Len(tasks) :
                       /\ tasks'[i].id = tasks[i].id
                       /\ tasks'[i].enabled = tasks[i].enabled]_vars

(* A run has written the task file and returned; the task it ran is        *)
(* stored disabled though the run began with it enabled, and the task      *)
(* created during a run is in the file.                                    *)
C37_Witness ==
    LET pr == proc["manual"]
    IN /\ pr.pc = "idle"
       /\ Running(pr)
       /\ Last(pr.trace) = [ev |-> "save", ok |-> TRUE]
       /\ CurrentTask(pr).enabled
       /\ ~StoredTask(CurrentTask(pr).id).enabled
       /\ StoredTask(CurrentTask(pr).id).lastProcessedCount = pr.totalNewContent
       /\ Len(tasks) = 2
       /\ answer.status = 200

(* The fields of a task that a run does not write *)
Settings(task) ==
    [id |-> task.id, name |-> task.name, sourceUsername |-> task.sourceUsername,
     destinationAccounts |-> task.destinationAccounts,
     contentTypes |-> task.contentTypes, enabled |-> task.enabled]

(* C38: a step of a run changes in the task file at most the watermarks,   *)
(* lastRun and lastProcessedCount of the run's own task: the record of     *)
(* every other task, and the id, name, sources, destinations, content      *)
(* types and enabled flag of its own, are after the step what the file     *)
(* held just before it.                                                    *)
C38_RunWritesOwnProgressOnly ==
    [][\A p \in Procs :
          (proc'[p] # proc[p] /\ proc'[p].qi >= 1)
             => /\ Len(tasks') = Len(tasks)
                /\ \A i \in 1..Len(tasks) :
                       /\ Settings(tasks'[i]) = Settings(tasks[i])
                       /\ tasks[i].id # CurrentTask(proc'[p]).id => tasks'[i] = tasks[i]]_vars

(* A manual run of the second task, disabled while the run was in flight,  *)
(* has written its progress; the first task has never been written.        *)
C38_Witness ==
    LET pr == proc["manual"]
    IN /\ pr.pc = "idle"
       /\ Running(pr)
       /\ Last(pr.trace) = [ev |-> "save", ok |-> TRUE]
       /\ CurrentTask(pr).id = 2
       /\ CurrentTask(pr).enabled /\ ~tasks[2].enabled
       /\ tasks[2].lastRun # NoRun
       /\ tasks[2].lastProcessedCount = 1
       /\ tasks[1] = NewTask(1, NameDaily, <<"animalplanet">>, {"x"}, PostsOnly)

----------------------------------------------------------------------------
(* Claims about the account store *)

(* C39: when two add-account requests for different names overlap and both *)
(* have answered 200, both names are in the account store; and the store   *)
(* never holds a name twice.                                               *)
C39_OverlappingAddsKept ==
    /\ \A i, j \in 1..Len(accounts) : accounts[i] = accounts[j] => i = j
    /\ \A r, q \in Requests :
          (/\ adding[r].pc = "done" /\ adding[r].status = 200
           /\ adding[q].pc = "done" /\ adding[q].status = 200
           /\ adding[r].username # adding[q].username
           /\ adding[r].accounts = adding[q].accounts)
             => \A u \in {adding[r].username, adding[q].username} :
                   \E i \in 1..Len(accounts) : accounts[i] = u

----------------------------------------------------------------------------
(* Claims about requests for a task that is not there *)

(* C40: the toggle and run-task endpoints asked for a task id that is not  *)
(* in the task file answer 404, start no run and leave the task file as it *)
(* is.                                                                     *)
C40_UnknownTaskNotFound ==
    [][\A taskId \in RequestIds :
          findIndex(tasks, taskId) = 0 =>
             /\ RunNow(taskId)
                  => /\ proc'["manual"].response = 404
                     /\ proc'["manual"].pc = "idle"
                     /\ proc'["manual"].qi = 0
                     /\ tasks' = tasks
             /\ (\E enabled \in BOOLEAN : Toggle(taskId, enabled))
                  => /\ answer'.status = 404
                     /\ proc' = proc
                     /\ tasks' = tasks]_vars

(* Both endpoints have answered 404 for a task that is not there, the one  *)
(* task of the file being as it was created.                               *)
C40_Witness ==
    /\ proc["manual"].response = 404
    /\ proc["manual"].qi = 0
    /\ answer.status = 404
    /\ tasks = <<NewTask(1, NameDaily, <<"animalplanet">>, {"x"}, PostsOnly)>>

====
